---- MODULE Spec2Model ----
(***************************************************************************)
(* Secure Memory Zone (SMZ): the CSR configuration protocol of smz_csr.h   *)
(* and the round-trip test of firmware/smz_test.c.                         *)
(*                                                                         *)
(* A uint32_t is the pair <<hi, lo>> of its two 16-bit halves, so that     *)
(* every 32-bit value (0xFFFFFFFF, 0xAABB0000, 0x80000000) is exact.       *)
(***************************************************************************)
EXTENDS Integers, Naturals, Sequences, FiniteSets, TLC

VARIABLES
    csr,            \* the three SMZ control registers, by CSR address
    pc,             \* position of the (single) execution context
    op,             \* the operation running, or the last one that returned
    base,           \* argument base of the running init/reconfigure
    size,           \* argument size of the running init/reconfigure
    enable,         \* argument enable of the running init (int)
    want,           \* get_config: which of the three out pointers are non-NULL
    was_enabled,    \* local of smz_reconfigure
    delay,          \* local "volatile int delay"
    ret,            \* return value of the last init/reconfigure
    cfg,            \* the caller's out variables of get_config
    pre,            \* history: csr at the time of the call
    oplog,          \* history: register operations of the running/last call
    rejects,        \* history: <<rule violated, value returned>> of rejected calls
    hpc,            \* smz_test: position
    i,              \* smz_test: loop index
    csr_read,       \* smz_test: csr_base, csr_size, csr_en read back
    test_image,     \* smz_test: the pattern
    ram,            \* the words of the secure window, by word index
    read_image,     \* smz_test: the words loaded back
    matches,        \* smz_test
    first_mismatch, \* smz_test
    faults,         \* the word indices the engine corrupted in transit
    report,         \* smz_test: what is printed at the end
    pc2,            \* second context: position in its smz_reconfigure
    op2,            \* second context: "none" until it has called
    base2,          \* second context: argument base
    size2,          \* second context: argument size
    was_enabled2,   \* second context: local was_enabled
    delay2,         \* second context: local delay
    ret2,           \* second context: return value
    locking,        \* whether the callers wrap each call in a mutual-exclusion region
    hist            \* history: the register states since the start

cmVars == <<pc, op, base, size, enable, want, was_enabled, delay, ret, cfg, pre, rejects>>
hVars  == <<hpc, i, csr_read, test_image, ram, read_image, matches, first_mismatch,
            faults, report>>
ctx2Vars == <<pc2, op2, base2, size2, was_enabled2, delay2, ret2, locking, hist>>
vars   == <<csr, oplog, cmVars, hVars, ctx2Vars>>

----------------------------------------------------------------------------
(* 32-bit words                                                            *)

Half == 65536

Word(hi, lo) == <<hi, lo>>

W0 == Word(0, 0)
W1 == Word(0, 1)

RECURSIVE And16(_, _)
And16(a, b) ==
    IF a = 0 \/ b = 0 THEN 0
    ELSE (a % 2) * (b % 2) + 2 * And16(a \div 2, b \div 2)

RECURSIVE Or16(_, _)
Or16(a, b) ==
    IF a = 0 THEN b
    ELSE IF b = 0 THEN a
    ELSE (IF a % 2 = 1 \/ b % 2 = 1 THEN 1 ELSE 0) + 2 * Or16(a \div 2, b \div 2)

\* a & b on uint32_t
BitAnd(a, b) == Word(And16(a[1], b[1]), And16(a[2], b[2]))

\* a | b on uint32_t
BitOr(a, b) == Word(Or16(a[1], b[1]), Or16(a[2], b[2]))

\* a - 1 on uint32_t: 0 - 1 wraps to 0xFFFFFFFF
Minus1(a) ==
    IF a[2] > 0 THEN Word(a[1], a[2] - 1)
    ELSE IF a[1] > 0 THEN Word(a[1] - 1, Half - 1)
    ELSE Word(Half - 1, Half - 1)

\* a << n on uint32_t, 0 <= n < 32: the bits shifted out of bit 31 are lost
Shl(a, n) ==
    IF n < 16
    THEN Word((a[1] * 2 ^ n + (a[2] * 2 ^ n) \div Half) % Half, (a[2] * 2 ^ n) % Half)
    ELSE Word((a[2] * 2 ^ (n - 16)) % Half, 0)

\* the uint32_t of a small non-negative int
FromInt(n) == Word(n \div Half, n % Half)

----------------------------------------------------------------------------
(* CSR addresses                                                           *)

CSR_SMZ_BASE   == 512
CSR_SMZ_SIZE   == 513
CSR_SMZ_ENABLE == 514

CsrAddrs == {CSR_SMZ_BASE, CSR_SMZ_SIZE, CSR_SMZ_ENABLE}

\* csrrs rd, csr, x0
read_csr(c) == csr[c]

\* csrrw x0, csr, rs: the register takes the value, the others keep theirs
write_csr(c, val) == [csr EXCEPT ![c] = val]

\* one entry of oplog
WriteOp(c, val) == [kind |-> "write", csr |-> c, val |-> val]
SettleOp        == [kind |-> "settle", csr |-> 0, val |-> W0]

smz_write_base(b) == write_csr(CSR_SMZ_BASE, b)
\* mutant: the size goes to the wrong register
smz_write_size_wrong_csr(s) == write_csr(CSR_SMZ_BASE, s)
smz_write_size(s) == write_csr(CSR_SMZ_SIZE, s)
smz_enable        == write_csr(CSR_SMZ_ENABLE, W1)
\* mutant: the disable clears bit 0 only (clear_csr_bits), higher bits stay
smz_disable_clear_bit ==
    write_csr(CSR_SMZ_ENABLE,
              Word(read_csr(CSR_SMZ_ENABLE)[1],
                   read_csr(CSR_SMZ_ENABLE)[2] - (read_csr(CSR_SMZ_ENABLE)[2] % 2)))
smz_disable       == write_csr(CSR_SMZ_ENABLE, W0)

\* mutant: any non-zero ENABLE counts as enabled
smz_is_enabled_nonzero == IF read_csr(CSR_SMZ_ENABLE) # W0 THEN 1 ELSE 0

\* (read_csr(CSR_SMZ_ENABLE) & 1), as the int 0 or 1
smz_is_enabled == BitAnd(read_csr(CSR_SMZ_ENABLE), W1)[2]

----------------------------------------------------------------------------
(* Inputs                                                                  *)

\* 0x10000, 0x20004 (aligned); 0x10002, 0xFFFFFFFD (not aligned)
BaseArgs == {Word(1, 0), Word(2, 4), Word(1, 2), Word(65535, 65533)}

\* 0x1000, 0x80000000, 1 (powers of two); 0, 0x1800, 0xFFFFFFFF (not)
SizeArgs == {Word(0, 4096), Word(32768, 0), W1, W0, Word(0, 6144),
             Word(65535, 65535)}

\* int enable: 0, 1 and an out-of-range non-zero value
EnableArgs == {0, 1, 2}

\* values written to a register with the bare write_csr macro: 3, 0xFFFFFFFE
RawValues == {Word(0, 3), Word(65535, 65534)}

\* get_config's (base, size, enable) pointers: TRUE is non-NULL
WantArgs == {<<TRUE, TRUE, TRUE>>, <<TRUE, FALSE, TRUE>>, <<FALSE, TRUE, FALSE>>}

\* an out variable get_config did not write
Unset == Word(-1, -1)
NoConfig == [base |-> Unset, size |-> Unset, enable |-> -1]

----------------------------------------------------------------------------
(* smz_init                                                                *)

\* mutant: the alignment mask is 0x1
Misaligned_Mask1(b) == BitAnd(b, W1) # W0

\* (base & 0x3) != 0
Misaligned(b) == BitAnd(b, Word(0, 3)) # W0

\* mutant: the test for size == 0 is missing
BadSize_NoZero(s) == BitAnd(s, Minus1(s)) # W0

\* (size & (size - 1)) != 0 || size == 0
BadSize(s) == BitAnd(s, Minus1(s)) # W0 \/ s = W0

\* return -1;  of the alignment check and of the size check of smz_init
InitAlignError == -1

\* mutant: the size check returns a value of its own
InitSizeErrorDistinct == InitAlignError - 1

InitSizeError == -1

smz_init_call(b, s, e) ==
    /\ pc = "idle"
    /\ pc' = "init_check_base"
    /\ op' = "init"
    /\ base' = b /\ size' = s /\ enable' = e
    /\ pre' = csr /\ oplog' = <<>> /\ cfg' = NoConfig
    /\ want' = <<FALSE, FALSE, FALSE>> /\ was_enabled' = 0 /\ delay' = 0 /\ ret' = 0
    /\ UNCHANGED <<csr, rejects, hVars, ctx2Vars>>

smz_init_check_base ==
    /\ pc = "init_check_base"
    /\ IF Misaligned(base)
       THEN /\ ret' = InitAlignError
            /\ rejects' = rejects \cup {<<"alignment", InitAlignError>>}
            /\ pc' = "idle"
       ELSE /\ pc' = "init_check_size"
            /\ UNCHANGED <<ret, rejects>>
    /\ UNCHANGED <<csr, oplog, op, base, size, enable, want, was_enabled, delay, cfg,
                   pre, hVars, ctx2Vars>>

smz_init_check_size ==
    /\ pc = "init_check_size"
    /\ IF BadSize(size)
       THEN /\ ret' = InitSizeError
            /\ rejects' = rejects \cup {<<"size", InitSizeError>>}
            /\ pc' = "idle"
       ELSE /\ pc' = "init_disable"
            /\ UNCHANGED <<ret, rejects>>
    /\ UNCHANGED <<csr, oplog, op, base, size, enable, want, was_enabled, delay, cfg,
                   pre, hVars, ctx2Vars>>

\* mutant: init does not disable the region
smz_init_disable_skipped ==
    /\ pc = "init_disable"
    /\ pc' = "init_delay"
    /\ UNCHANGED <<csr, oplog, op, base, size, enable, want, was_enabled, delay, ret,
                   cfg, pre, rejects, hVars, ctx2Vars>>

smz_init_disable ==
    /\ pc = "init_disable"
    /\ csr' = smz_disable
    /\ oplog' = Append(oplog, WriteOp(CSR_SMZ_ENABLE, W0))
    /\ pc' = "init_delay"
    /\ UNCHANGED <<op, base, size, enable, want, was_enabled, delay, ret, cfg, pre,
                   rejects, hVars, ctx2Vars>>

\* volatile int delay = 10;
SettleCount == 10

smz_init_delay ==
    /\ pc = "init_delay"
    /\ delay' = SettleCount
    /\ pc' = "init_wait"
    /\ UNCHANGED <<csr, oplog, op, base, size, enable, want, was_enabled, ret, cfg, pre,
                   rejects, hVars, ctx2Vars>>

\* mutant: while (delay);  the counter is never decremented
smz_init_wait_no_decrement ==
    /\ pc = "init_wait"
    /\ delay' = delay
    /\ IF delay # 0
       THEN UNCHANGED <<pc, oplog>>
       ELSE /\ pc' = "init_write_base"
            /\ oplog' = Append(oplog, SettleOp)
    /\ UNCHANGED <<csr, op, base, size, enable, want, was_enabled, ret, cfg, pre,
                   rejects, hVars, ctx2Vars>>

\* while (delay--);  the test reads delay, the decrement follows in every case
smz_init_wait ==
    /\ pc = "init_wait"
    /\ delay' = delay - 1
    /\ IF delay # 0
       THEN UNCHANGED <<pc, oplog>>
       ELSE /\ pc' = "init_write_base"
            /\ oplog' = Append(oplog, SettleOp)
    /\ UNCHANGED <<csr, op, base, size, enable, want, was_enabled, ret, cfg, pre,
                   rejects, hVars, ctx2Vars>>

smz_init_write_base ==
    /\ pc = "init_write_base"
    /\ csr' = smz_write_base(base)
    /\ oplog' = Append(oplog, WriteOp(CSR_SMZ_BASE, base))
    /\ pc' = "init_write_size"
    /\ UNCHANGED <<op, base, size, enable, want, was_enabled, delay, ret, cfg, pre,
                   rejects, hVars, ctx2Vars>>

smz_init_write_size ==
    /\ pc = "init_write_size"
    /\ csr' = smz_write_size(size)
    /\ oplog' = Append(oplog, WriteOp(CSR_SMZ_SIZE, size))
    /\ pc' = "init_enable"
    /\ UNCHANGED <<op, base, size, enable, want, was_enabled, delay, ret, cfg, pre,
                   rejects, hVars, ctx2Vars>>

\* mutant: init enables whatever was requested
smz_init_enable_always ==
    /\ pc = "init_enable"
    /\ csr' = smz_enable
    /\ oplog' = Append(oplog, WriteOp(CSR_SMZ_ENABLE, W1))
    /\ ret' = 0
    /\ pc' = "idle"
    /\ UNCHANGED <<op, base, size, enable, want, was_enabled, delay, cfg, pre,
                   rejects, hVars, ctx2Vars>>

\* if (enable) smz_enable();  return 0;
smz_init_enable ==
    /\ pc = "init_enable"
    /\ IF enable # 0
       THEN /\ csr' = smz_enable
            /\ oplog' = Append(oplog, WriteOp(CSR_SMZ_ENABLE, W1))
       ELSE UNCHANGED <<csr, oplog>>
    /\ ret' = 0
    /\ pc' = "idle"
    /\ UNCHANGED <<op, base, size, enable, want, was_enabled, delay, cfg, pre,
                   rejects, hVars, ctx2Vars>>

----------------------------------------------------------------------------
(* smz_reconfigure                                                         *)

\* mutant: reconfigure reports a rejection with a value of its own
ReconfigureErrorDistinct == InitAlignError - 1

\* return -1;  of the single validation test of smz_reconfigure
ReconfigureError == -1

\* the rule a rejected (base, size) violates; the || tests alignment first
ViolatedRule(b, s) == IF Misaligned(b) THEN "alignment" ELSE "size"

smz_reconfigure_call(b, s) ==
    /\ pc = "idle"
    /\ pc' = "rc_check"
    /\ op' = "reconfigure"
    /\ base' = b /\ size' = s /\ enable' = 0
    /\ pre' = csr /\ oplog' = <<>> /\ cfg' = NoConfig
    /\ want' = <<FALSE, FALSE, FALSE>> /\ was_enabled' = 0 /\ delay' = 0 /\ ret' = 0
    /\ UNCHANGED <<csr, rejects, hVars, ctx2Vars>>

smz_reconfigure_check ==
    /\ pc = "rc_check"
    /\ IF Misaligned(base) \/ BadSize(size)
       THEN /\ ret' = ReconfigureError
            /\ rejects' = rejects \cup {<<ViolatedRule(base, size), ReconfigureError>>}
            /\ pc' = "idle"
       ELSE /\ pc' = "rc_read_enable"
            /\ UNCHANGED <<ret, rejects>>
    /\ UNCHANGED <<csr, oplog, op, base, size, enable, want, was_enabled, delay, cfg,
                   pre, hVars, ctx2Vars>>

\* int was_enabled = smz_is_enabled();
smz_reconfigure_read_enable ==
    /\ pc = "rc_read_enable"
    /\ was_enabled' = smz_is_enabled
    /\ pc' = "rc_disable"
    /\ UNCHANGED <<csr, oplog, op, base, size, enable, want, delay, ret, cfg, pre,
                   rejects, hVars, ctx2Vars>>

smz_reconfigure_disable ==
    /\ pc = "rc_disable"
    /\ csr' = smz_disable
    /\ oplog' = Append(oplog, WriteOp(CSR_SMZ_ENABLE, W0))
    /\ pc' = "rc_delay"
    /\ UNCHANGED <<op, base, size, enable, want, was_enabled, delay, ret, cfg, pre,
                   rejects, hVars, ctx2Vars>>

smz_reconfigure_delay ==
    /\ pc = "rc_delay"
    /\ delay' = SettleCount
    /\ pc' = "rc_wait"
    /\ UNCHANGED <<csr, oplog, op, base, size, enable, want, was_enabled, ret, cfg, pre,
                   rejects, hVars, ctx2Vars>>

smz_reconfigure_wait ==
    /\ pc = "rc_wait"
    /\ delay' = delay - 1
    /\ IF delay # 0
       THEN UNCHANGED <<pc, oplog>>
       ELSE /\ pc' = "rc_write_base"
            /\ oplog' = Append(oplog, SettleOp)
    /\ UNCHANGED <<csr, op, base, size, enable, want, was_enabled, ret, cfg, pre,
                   rejects, hVars, ctx2Vars>>

smz_reconfigure_write_base ==
    /\ pc = "rc_write_base"
    /\ csr' = smz_write_base(base)
    /\ oplog' = Append(oplog, WriteOp(CSR_SMZ_BASE, base))
    /\ pc' = "rc_write_size"
    /\ UNCHANGED <<op, base, size, enable, want, was_enabled, delay, ret, cfg, pre,
                   rejects, hVars, ctx2Vars>>

smz_reconfigure_write_size ==
    /\ pc = "rc_write_size"
    /\ csr' = smz_write_size(size)
    /\ oplog' = Append(oplog, WriteOp(CSR_SMZ_SIZE, size))
    /\ pc' = "rc_restore"
    /\ UNCHANGED <<op, base, size, enable, want, was_enabled, delay, ret, cfg, pre,
                   rejects, hVars, ctx2Vars>>

\* mutant: reconfigure leaves the region disabled
smz_reconfigure_restore_never ==
    /\ pc = "rc_restore"
    /\ ret' = 0
    /\ pc' = "idle"
    /\ UNCHANGED <<csr, oplog, op, base, size, enable, want, was_enabled, delay, cfg,
                   pre, rejects, hVars, ctx2Vars>>

\* mutant: reconfigure enables whatever it read
smz_reconfigure_restore_always ==
    /\ pc = "rc_restore"
    /\ csr' = smz_enable
    /\ oplog' = Append(oplog, WriteOp(CSR_SMZ_ENABLE, W1))
    /\ ret' = 0
    /\ pc' = "idle"
    /\ UNCHANGED <<op, base, size, enable, want, was_enabled, delay, cfg, pre,
                   rejects, hVars, ctx2Vars>>

\* if (was_enabled) smz_enable();  return 0;
smz_reconfigure_restore ==
    /\ pc = "rc_restore"
    /\ IF was_enabled # 0
       THEN /\ csr' = smz_enable
            /\ oplog' = Append(oplog, WriteOp(CSR_SMZ_ENABLE, W1))
       ELSE UNCHANGED <<csr, oplog>>
    /\ ret' = 0
    /\ pc' = "idle"
    /\ UNCHANGED <<op, base, size, enable, want, was_enabled, delay, cfg, pre,
                   rejects, hVars, ctx2Vars>>

----------------------------------------------------------------------------
(* smz_get_config                                                          *)

\* The caller keeps base, size, enable and ret of the call before, so that
\* what get_config returns can be compared with what that call was given.
smz_get_config_call(w) ==
    /\ pc = "idle"
    /\ op \in {"init", "reconfigure", "write_csr", "none"}
    /\ pc' = "gc_base"
    /\ op' = IF op = "init" /\ ret = 0 THEN "get_config_after_init" ELSE "get_config"
    /\ want' = w
    /\ cfg' = NoConfig
    /\ pre' = csr /\ oplog' = <<>>
    /\ was_enabled' = 0 /\ delay' = 0
    /\ IF op = "init" /\ ret = 0
       THEN UNCHANGED <<base, size, enable, ret>>
       ELSE base' = W0 /\ size' = W0 /\ enable' = 0 /\ ret' = 0
    /\ UNCHANGED <<csr, rejects, hVars, ctx2Vars>>

\* if (base) *base = smz_read_base();
smz_get_config_base ==
    /\ pc = "gc_base"
    /\ cfg' = IF want[1] THEN [cfg EXCEPT !.base = read_csr(CSR_SMZ_BASE)] ELSE cfg
    /\ pc' = "gc_size"
    /\ UNCHANGED <<csr, oplog, op, base, size, enable, want, was_enabled, delay, ret,
                   pre, rejects, hVars, ctx2Vars>>

\* mutant: the size is read from the base register
smz_get_config_size_from_base ==
    /\ pc = "gc_size"
    /\ cfg' = IF want[2] THEN [cfg EXCEPT !.size = read_csr(CSR_SMZ_BASE)] ELSE cfg
    /\ pc' = "gc_enable"
    /\ UNCHANGED <<csr, oplog, op, base, size, enable, want, was_enabled, delay, ret,
                   pre, rejects, hVars, ctx2Vars>>

\* if (size) *size = smz_read_size();
smz_get_config_size ==
    /\ pc = "gc_size"
    /\ cfg' = IF want[2] THEN [cfg EXCEPT !.size = read_csr(CSR_SMZ_SIZE)] ELSE cfg
    /\ pc' = "gc_enable"
    /\ UNCHANGED <<csr, oplog, op, base, size, enable, want, was_enabled, delay, ret,
                   pre, rejects, hVars, ctx2Vars>>

\* if (enable) *enable = smz_is_enabled();
smz_get_config_enable ==
    /\ pc = "gc_enable"
    /\ cfg' = IF want[3] THEN [cfg EXCEPT !.enable = smz_is_enabled] ELSE cfg
    /\ pc' = "idle"
    /\ UNCHANGED <<csr, oplog, op, base, size, enable, want, was_enabled, delay, ret,
                   pre, rejects, hVars, ctx2Vars>>

----------------------------------------------------------------------------
(* A bare write_csr(csr, val) by the caller, outside init and reconfigure  *)

raw_write_csr(c, val) ==
    /\ pc = "idle"
    /\ op' = "write_csr"
    /\ csr' = write_csr(c, val)
    /\ oplog' = <<WriteOp(c, val)>>
    /\ pre' = csr
    /\ base' = W0 /\ size' = W0 /\ enable' = 0 /\ ret' = 0
    /\ cfg' = NoConfig /\ want' = <<FALSE, FALSE, FALSE>>
    /\ was_enabled' = 0 /\ delay' = 0
    /\ UNCHANGED <<pc, rejects, hVars, ctx2Vars>>

----------------------------------------------------------------------------
(* The round-trip test, smz_test                                           *)

\* its own read_csr and write_csr, inline functions over csrrs and csrrw
test_read_csr(c) == csr[c]
test_write_csr(c, val) == [csr EXCEPT ![c] = val]

\* mutant: the window is 0x200 bytes, smaller than the image
SECURE_SIZE_small == Word(0, 512)

\* #define SECURE_ADDR 0x10000, #define SECURE_SIZE 0x1000
SECURE_ADDR == Word(1, 0)
SECURE_SIZE == Word(0, 4096)

\* uint32_t test_image[196], read_image[196]
N == 196

\* mutant: the third term is not shifted
Pattern_no_shift(k) ==
    BitOr(BitOr(BitOr(Shl(FromInt(170), 24), Shl(FromInt(187), 16)),
                BitAnd(FromInt(k), FromInt(255))),
          BitAnd(FromInt(k), FromInt(255)))

\* (0xAA << 24) | (0xBB << 16) | ((i & 0xFF) << 8) | (i & 0xFF)
\* 0xAA << 24 does not fit a signed int; the RISC-V compilers this firmware
\* is built with define the shift as the wrapped 32-bit value 0xAA000000.
Pattern(k) ==
    BitOr(BitOr(BitOr(Shl(FromInt(170), 24), Shl(FromInt(187), 16)),
                Shl(BitAnd(FromInt(k), FromInt(255)), 8)),
          BitAnd(FromInt(k), FromInt(255)))

\* a + b on uint32_t, the carry out of bit 31 lost
AddWord(a, b) ==
    Word((a[1] + b[1] + (a[2] + b[2]) \div Half) % Half, (a[2] + b[2]) % Half)

\* volatile uint32_t *secure_mem = (volatile uint32_t *)SECURE_ADDR;
\* the address of secure_mem[k]: 4 bytes a word
secure_mem_addr(k) == AddWord(SECURE_ADDR, FromInt(4 * k))

\* An array is the sequence of the words written to it so far: word k of the
\* code is element k + 1, and an element not yet written cannot be read.
NoReport == [verdict |-> "none", mismatches |-> 0, first |-> -1,
             expected |-> W0, got |-> W0]

HarnessIdle ==
    /\ hpc = "idle" /\ i = 0 /\ csr_read = <<W0, W0, W0>>
    /\ test_image = <<>> /\ ram = <<>> /\ read_image = <<>>
    /\ matches = 0 /\ first_mismatch = -1 /\ faults = {} /\ report = NoReport

(* The engine between the CPU and the RAM of the window.  Its cipher is    *)
(* hardware; towards the test it is a transit that hands a word back as it *)
(* was stored (identity), or with bits flipped when it corrupts the word.  *)

\* the most words the engine corrupts in one run
MaxFaults == 2

\* the word indices at which the engine may corrupt: first, inner, last
FaultIdx == {0, 1, 97, 194, 195}

\* the bits a corruption flips: the lowest, the highest
FaultMasks == {W1, Word(32768, 0)}

RECURSIVE Xor16(_, _)
Xor16(a, b) ==
    IF a = 0 THEN b
    ELSE IF b = 0 THEN a
    ELSE ((a + b) % 2) + 2 * Xor16(a \div 2, b \div 2)

\* what arrives when the engine corrupts word w with mask m
Corrupted(w, m) == Word(Xor16(w[1], m[1]), Xor16(w[2], m[2]))

\* what a store of w leaves in the window
EngineStore(w) == w

\* what a load of the stored word w delivers when the engine does not corrupt
EngineLoad(w) == w

smz_test_call ==
    /\ pc = "idle" /\ hpc = "idle"
    /\ hpc' = "write_base"
    /\ oplog' = <<>>
    /\ UNCHANGED <<csr, cmVars, ctx2Vars, i, csr_read, test_image, ram, read_image, matches,
                   first_mismatch, faults, report>>

\* write_csr(CSR_SMZ_BASE, SECURE_ADDR);
smz_test_write_base ==
    /\ hpc = "write_base"
    /\ csr' = test_write_csr(CSR_SMZ_BASE, SECURE_ADDR)
    /\ oplog' = Append(oplog, WriteOp(CSR_SMZ_BASE, SECURE_ADDR))
    /\ hpc' = "write_size"
    /\ UNCHANGED <<cmVars, ctx2Vars, i, csr_read, test_image, ram, read_image, matches,
                   first_mismatch, faults, report>>

\* write_csr(CSR_SMZ_SIZE, SECURE_SIZE);
smz_test_write_size ==
    /\ hpc = "write_size"
    /\ csr' = test_write_csr(CSR_SMZ_SIZE, SECURE_SIZE)
    /\ oplog' = Append(oplog, WriteOp(CSR_SMZ_SIZE, SECURE_SIZE))
    /\ hpc' = "write_enable"
    /\ UNCHANGED <<cmVars, ctx2Vars, i, csr_read, test_image, ram, read_image, matches,
                   first_mismatch, faults, report>>

\* write_csr(CSR_SMZ_ENABLE, 1);
smz_test_write_enable ==
    /\ hpc = "write_enable"
    /\ csr' = test_write_csr(CSR_SMZ_ENABLE, W1)
    /\ oplog' = Append(oplog, WriteOp(CSR_SMZ_ENABLE, W1))
    /\ hpc' = "read_csrs"
    /\ UNCHANGED <<cmVars, ctx2Vars, i, csr_read, test_image, ram, read_image, matches,
                   first_mismatch, faults, report>>

\* csr_base, csr_size, csr_en = read_csr(...), printed and not used again
smz_test_read_csrs ==
    /\ hpc = "read_csrs"
    /\ csr_read' = <<test_read_csr(CSR_SMZ_BASE), test_read_csr(CSR_SMZ_SIZE),
                     test_read_csr(CSR_SMZ_ENABLE)>>
    /\ hpc' = "generate"
    /\ i' = 0
    /\ UNCHANGED <<csr, oplog, cmVars, ctx2Vars, test_image, ram, read_image, matches,
                   first_mismatch, faults, report>>

\* for (i = 0; i < 196; i++) test_image[i] = pattern
smz_test_generate ==
    /\ hpc = "generate"
    /\ IF i < N
       THEN /\ test_image' = Append(test_image, Pattern(i))
            /\ i' = i + 1
            /\ UNCHANGED hpc
       ELSE /\ hpc' = "store"
            /\ i' = 0
            /\ UNCHANGED test_image
    /\ UNCHANGED <<csr, oplog, cmVars, ctx2Vars, csr_read, ram, read_image, matches,
                   first_mismatch, faults, report>>

\* mutant: every store writes word 0 of the pattern
smz_test_store_word0 ==
    /\ hpc = "store"
    /\ IF i < N
       THEN /\ ram' = Append(ram, EngineStore(test_image[1]))
            /\ i' = i + 1
            /\ UNCHANGED hpc
       ELSE /\ hpc' = "load"
            /\ i' = 0
            /\ UNCHANGED ram
    /\ UNCHANGED <<csr, oplog, cmVars, ctx2Vars, csr_read, test_image, read_image, matches,
                   first_mismatch, faults, report>>

\* for (i = 0; i < 196; i++) secure_mem[i] = test_image[i];
smz_test_store ==
    /\ hpc = "store"
    /\ IF i < N
       THEN /\ ram' = Append(ram, EngineStore(test_image[i + 1]))
            /\ i' = i + 1
            /\ UNCHANGED hpc
       ELSE /\ hpc' = "load"
            /\ i' = 0
            /\ UNCHANGED ram
    /\ UNCHANGED <<csr, oplog, cmVars, ctx2Vars, csr_read, test_image, read_image, matches,
                   first_mismatch, faults, report>>

\* for (i = 0; i < 196; i++) read_image[i] = secure_mem[i];
\* the volatile load delivers what the engine hands back
smz_test_load ==
    /\ hpc = "load"
    /\ \/ /\ i < N
          /\ read_image' = Append(read_image, EngineLoad(ram[i + 1]))
          /\ i' = i + 1
          /\ UNCHANGED <<hpc, faults>>
       \/ /\ i < N
          /\ i \in FaultIdx
          /\ Cardinality(faults) < MaxFaults
          /\ \E m \in FaultMasks :
                read_image' = Append(read_image, Corrupted(ram[i + 1], m))
          /\ faults' = faults \cup {i}
          /\ i' = i + 1
          /\ UNCHANGED hpc
       \/ /\ i >= N
          /\ hpc' = "compare"
          /\ i' = 0
          /\ UNCHANGED <<read_image, faults>>
    /\ UNCHANGED <<csr, oplog, cmVars, ctx2Vars, csr_read, test_image, ram, matches,
                   first_mismatch, report>>

\* mutant: every mismatch is recorded, the test for -1 is missing
smz_test_compare_overwrite ==
    /\ hpc = "compare"
    /\ IF i < N
       THEN /\ IF read_image[i + 1] = test_image[i + 1]
               THEN matches' = matches + 1 /\ UNCHANGED first_mismatch
               ELSE first_mismatch' = i /\ UNCHANGED matches
            /\ i' = i + 1
            /\ UNCHANGED hpc
       ELSE /\ hpc' = "report"
            /\ UNCHANGED <<i, matches, first_mismatch>>
    /\ UNCHANGED <<csr, oplog, cmVars, ctx2Vars, csr_read, test_image, ram, read_image,
                   faults, report>>

\* for (i = 0; i < 196; i++)
\*     if (read_image[i] == test_image[i]) matches++;
\*     else if (first_mismatch == -1) first_mismatch = i;
smz_test_compare ==
    /\ hpc = "compare"
    /\ IF i < N
       THEN /\ IF read_image[i + 1] = test_image[i + 1]
               THEN matches' = matches + 1 /\ UNCHANGED first_mismatch
               ELSE IF first_mismatch = -1
                    THEN first_mismatch' = i /\ UNCHANGED matches
                    ELSE UNCHANGED <<matches, first_mismatch>>
            /\ i' = i + 1
            /\ UNCHANGED hpc
       ELSE /\ hpc' = "report"
            /\ UNCHANGED <<i, matches, first_mismatch>>
    /\ UNCHANGED <<csr, oplog, cmVars, ctx2Vars, csr_read, test_image, ram, read_image,
                   faults, report>>

\* mutant: the two printed words are exchanged
smz_test_report_swapped ==
    /\ hpc = "report"
    /\ report' =
         IF matches = N
         THEN [NoReport EXCEPT !.verdict = "PASS"]
         ELSE [verdict |-> "FAIL", mismatches |-> N - matches,
               first |-> first_mismatch,
               expected |-> IF first_mismatch # -1
                            THEN read_image[first_mismatch + 1] ELSE W0,
               got |-> IF first_mismatch # -1
                       THEN test_image[first_mismatch + 1] ELSE W0]
    /\ hpc' = "done"
    /\ UNCHANGED <<csr, oplog, cmVars, ctx2Vars, i, csr_read, test_image, ram, read_image,
                   matches, first_mismatch, faults>>

\* if (matches == 196) PASS, else FAIL with the mismatch count and, if there
\* is a first mismatch, its index and the two words
smz_test_report ==
    /\ hpc = "report"
    /\ report' =
         IF matches = N
         THEN [NoReport EXCEPT !.verdict = "PASS"]
         ELSE [verdict |-> "FAIL", mismatches |-> N - matches,
               first |-> first_mismatch,
               expected |-> IF first_mismatch # -1
                            THEN test_image[first_mismatch + 1] ELSE W0,
               got |-> IF first_mismatch # -1
                       THEN read_image[first_mismatch + 1] ELSE W0]
    /\ hpc' = "done"
    /\ UNCHANGED <<csr, oplog, cmVars, ctx2Vars, i, csr_read, test_image, ram, read_image,
                   matches, first_mismatch, faults>>

----------------------------------------------------------------------------
(* A second execution context running smz_reconfigure.  The header has no  *)
(* lock: the two contexts share the registers and nothing else.            *)

Ctx2Idle ==
    /\ pc2 = "idle" /\ op2 = "none"
    /\ base2 = W0 /\ size2 = W0
    /\ was_enabled2 = 0 /\ delay2 = 0 /\ ret2 = 0

\* the second context is the only writer recorded in hist
Ctx2Write(regs) ==
    /\ csr' = regs
    /\ hist' = Append(hist, regs)

ctx2_reconfigure_call(b, s) ==
    /\ pc2 = "idle" /\ op2 = "none"
    /\ pc2' = "rc_check"
    /\ op2' = "reconfigure"
    /\ base2' = b /\ size2' = s
    /\ UNCHANGED <<csr, oplog, cmVars, hVars, was_enabled2, delay2, ret2, locking, hist>>

ctx2_reconfigure_check ==
    /\ pc2 = "rc_check"
    /\ IF Misaligned(base2) \/ BadSize(size2)
       THEN /\ ret2' = ReconfigureError
            /\ pc2' = "idle"
       ELSE /\ pc2' = "rc_read_enable"
            /\ UNCHANGED ret2
    /\ UNCHANGED <<csr, oplog, cmVars, hVars, op2, base2, size2, was_enabled2, delay2,
                   locking, hist>>

ctx2_reconfigure_read_enable ==
    /\ pc2 = "rc_read_enable"
    /\ was_enabled2' = smz_is_enabled
    /\ pc2' = "rc_disable"
    /\ UNCHANGED <<csr, oplog, cmVars, hVars, op2, base2, size2, delay2, ret2,
                   locking, hist>>

ctx2_reconfigure_disable ==
    /\ pc2 = "rc_disable"
    /\ Ctx2Write(smz_disable)
    /\ pc2' = "rc_delay"
    /\ UNCHANGED <<oplog, cmVars, hVars, op2, base2, size2, was_enabled2, delay2, ret2,
                   locking>>

ctx2_reconfigure_delay ==
    /\ pc2 = "rc_delay"
    /\ delay2' = SettleCount
    /\ pc2' = "rc_wait"
    /\ UNCHANGED <<csr, oplog, cmVars, hVars, op2, base2, size2, was_enabled2, ret2,
                   locking, hist>>

ctx2_reconfigure_wait ==
    /\ pc2 = "rc_wait"
    /\ delay2' = delay2 - 1
    /\ pc2' = IF delay2 # 0 THEN pc2 ELSE "rc_write_base"
    /\ UNCHANGED <<csr, oplog, cmVars, hVars, op2, base2, size2, was_enabled2, ret2,
                   locking, hist>>

ctx2_reconfigure_write_base ==
    /\ pc2 = "rc_write_base"
    /\ Ctx2Write(smz_write_base(base2))
    /\ pc2' = "rc_write_size"
    /\ UNCHANGED <<oplog, cmVars, hVars, op2, base2, size2, was_enabled2, delay2, ret2,
                   locking>>

ctx2_reconfigure_write_size ==
    /\ pc2 = "rc_write_size"
    /\ Ctx2Write(smz_write_size(size2))
    /\ pc2' = "rc_restore"
    /\ UNCHANGED <<oplog, cmVars, hVars, op2, base2, size2, was_enabled2, delay2, ret2,
                   locking>>

ctx2_reconfigure_restore ==
    /\ pc2 = "rc_restore"
    /\ IF was_enabled2 # 0
       THEN Ctx2Write(smz_enable)
       ELSE UNCHANGED <<csr, hist>>
    /\ ret2' = 0
    /\ pc2' = "idle"
    /\ UNCHANGED <<oplog, cmVars, hVars, op2, base2, size2, was_enabled2, delay2,
                   locking>>

----------------------------------------------------------------------------
(* The configuration manager, one execution context                        *)

Init ==
    /\ csr = [c \in CsrAddrs |-> W0]
    /\ Ctx2Idle /\ locking = FALSE /\ hist = <<>>
    /\ pc = "idle" /\ op = "none"
    /\ base = W0 /\ size = W0 /\ enable = 0
    /\ want = <<FALSE, FALSE, FALSE>>
    /\ was_enabled = 0 /\ delay = 0 /\ ret = 0
    /\ cfg = NoConfig
    /\ pre = [c \in CsrAddrs |-> W0]
    /\ oplog = <<>>
    /\ rejects = {}
    /\ HarnessIdle

Next ==
    \/ \E b \in BaseArgs, s \in SizeArgs, e \in EnableArgs : smz_init_call(b, s, e)
    \/ smz_init_check_base
    \/ smz_init_check_size
    \/ smz_init_disable
    \/ smz_init_delay
    \/ smz_init_wait
    \/ smz_init_write_base
    \/ smz_init_write_size
    \/ smz_init_enable
    \/ \E b \in BaseArgs, s \in SizeArgs : smz_reconfigure_call(b, s)
    \/ smz_reconfigure_check
    \/ smz_reconfigure_read_enable
    \/ smz_reconfigure_disable
    \/ smz_reconfigure_delay
    \/ smz_reconfigure_wait
    \/ smz_reconfigure_write_base
    \/ smz_reconfigure_write_size
    \/ smz_reconfigure_restore
    \/ \E w \in WantArgs : smz_get_config_call(w)
    \/ smz_get_config_base
    \/ smz_get_config_size
    \/ smz_get_config_enable
    \/ \E c \in CsrAddrs, val \in RawValues : raw_write_csr(c, val)

Spec == Init /\ [][Next]_vars

----------------------------------------------------------------------------
(* The registers changed through smz_init and smz_reconfigure only: the    *)
(* caller issues no write_csr of its own                                   *)

ManagedNext ==
    \/ \E b \in BaseArgs, s \in SizeArgs, e \in EnableArgs : smz_init_call(b, s, e)
    \/ smz_init_check_base
    \/ smz_init_check_size
    \/ smz_init_disable
    \/ smz_init_delay
    \/ smz_init_wait
    \/ smz_init_write_base
    \/ smz_init_write_size
    \/ smz_init_enable
    \/ \E b \in BaseArgs, s \in SizeArgs : smz_reconfigure_call(b, s)
    \/ smz_reconfigure_check
    \/ smz_reconfigure_read_enable
    \/ smz_reconfigure_disable
    \/ smz_reconfigure_delay
    \/ smz_reconfigure_wait
    \/ smz_reconfigure_write_base
    \/ smz_reconfigure_write_size
    \/ smz_reconfigure_restore
    \/ \E w \in WantArgs : smz_get_config_call(w)
    \/ smz_get_config_base
    \/ smz_get_config_size
    \/ smz_get_config_enable

ManagedSpec == Init /\ [][ManagedNext]_vars

----------------------------------------------------------------------------
(* Two contexts, one call each: the first calls smz_get_config or          *)
(* smz_reconfigure, the second smz_reconfigure.  Either the callers take   *)
(* no lock, as the header leaves them, or they wrap each whole call in one *)
(* mutual-exclusion region, so that a call starts only while the other     *)
(* context is outside its call.                                           *)

\* the region as init(0x10000, 0x1000, 1) leaves it
ConcStartCsr ==
    (CSR_SMZ_BASE :> Word(1, 0)) @@ (CSR_SMZ_SIZE :> Word(0, 4096))
        @@ (CSR_SMZ_ENABLE :> W1)

\* 0x20004, 0x30008
ConcBaseArgs == {Word(2, 4), Word(3, 8)}

\* 0x80000000, and the invalid 0
ConcSizeArgs == {Word(32768, 0), W0}

ConcInit ==
    /\ csr = ConcStartCsr
    /\ pc = "idle" /\ op = "none"
    /\ base = W0 /\ size = W0 /\ enable = 0
    /\ want = <<FALSE, FALSE, FALSE>>
    /\ was_enabled = 0 /\ delay = 0 /\ ret = 0
    /\ cfg = NoConfig
    /\ pre = ConcStartCsr
    /\ oplog = <<>>
    /\ rejects = {}
    /\ HarnessIdle
    /\ Ctx2Idle
    /\ locking \in BOOLEAN
    /\ hist = <<ConcStartCsr>>

\* the mutual-exclusion region is free for a context when the other is outside
MutexFree(otherPc) == locking => otherPc = "idle"

ConcNext ==
    \/ /\ op = "none" /\ MutexFree(pc2)
       /\ smz_get_config_call(<<TRUE, TRUE, TRUE>>)
    \/ /\ op = "none" /\ MutexFree(pc2)
       /\ \E b \in ConcBaseArgs, s \in ConcSizeArgs : smz_reconfigure_call(b, s)
    \/ smz_get_config_base
    \/ smz_get_config_size
    \/ smz_get_config_enable
    \/ smz_reconfigure_check
    \/ smz_reconfigure_read_enable
    \/ smz_reconfigure_disable
    \/ smz_reconfigure_delay
    \/ smz_reconfigure_wait
    \/ smz_reconfigure_write_base
    \/ smz_reconfigure_write_size
    \/ smz_reconfigure_restore
    \/ /\ MutexFree(pc)
       /\ \E b \in ConcBaseArgs, s \in ConcSizeArgs : ctx2_reconfigure_call(b, s)
    \/ ctx2_reconfigure_check
    \/ ctx2_reconfigure_read_enable
    \/ ctx2_reconfigure_disable
    \/ ctx2_reconfigure_delay
    \/ ctx2_reconfigure_wait
    \/ ctx2_reconfigure_write_base
    \/ ctx2_reconfigure_write_size
    \/ ctx2_reconfigure_restore

ConcSpec == ConcInit /\ [][ConcNext]_vars

----------------------------------------------------------------------------
(* One run of smz_test, from a register state the context can have left    *)

\* after reset; after init(0x20004, 0x80000000, 1); after init(0x20004, 1, 0)
HarnessStartCsr ==
    { [c \in CsrAddrs |-> W0],
      (CSR_SMZ_BASE :> Word(2, 4)) @@ (CSR_SMZ_SIZE :> Word(32768, 0))
          @@ (CSR_SMZ_ENABLE :> W1),
      (CSR_SMZ_BASE :> Word(2, 4)) @@ (CSR_SMZ_SIZE :> W1)
          @@ (CSR_SMZ_ENABLE :> W0) }

HarnessInit ==
    /\ csr \in HarnessStartCsr
    /\ Ctx2Idle /\ locking = FALSE /\ hist = <<>>
    /\ pc = "idle" /\ op = "none"
    /\ base = W0 /\ size = W0 /\ enable = 0
    /\ want = <<FALSE, FALSE, FALSE>>
    /\ was_enabled = 0 /\ delay = 0 /\ ret = 0
    /\ cfg = NoConfig
    /\ pre = [c \in CsrAddrs |-> W0]
    /\ oplog = <<>>
    /\ rejects = {}
    /\ HarnessIdle

HarnessNext ==
    \/ smz_test_call
    \/ smz_test_write_base
    \/ smz_test_write_size
    \/ smz_test_write_enable
    \/ smz_test_read_csrs
    \/ smz_test_generate
    \/ smz_test_store
    \/ smz_test_load
    \/ smz_test_compare
    \/ smz_test_report

HarnessSpec == HarnessInit /\ [][HarnessNext]_vars

----------------------------------------------------------------------------
(* Running to completion.  A program is either a user of smz_csr.h or the  *)
(* test firmware, which does not include the header; the processor         *)
(* executes the next statement of a call that has started, and nothing     *)
(* obliges a caller to start a call.                                       *)

\* the statements inside smz_init, smz_reconfigure and smz_get_config
ManagedSteps ==
    \/ smz_init_check_base
    \/ smz_init_check_size
    \/ smz_init_disable
    \/ smz_init_delay
    \/ smz_init_wait
    \/ smz_init_write_base
    \/ smz_init_write_size
    \/ smz_init_enable
    \/ smz_reconfigure_check
    \/ smz_reconfigure_read_enable
    \/ smz_reconfigure_disable
    \/ smz_reconfigure_delay
    \/ smz_reconfigure_wait
    \/ smz_reconfigure_write_base
    \/ smz_reconfigure_write_size
    \/ smz_reconfigure_restore
    \/ smz_get_config_base
    \/ smz_get_config_size
    \/ smz_get_config_enable

\* the statements inside smz_test
HarnessSteps ==
    \/ smz_test_write_base
    \/ smz_test_write_size
    \/ smz_test_write_enable
    \/ smz_test_read_csrs
    \/ smz_test_generate
    \/ smz_test_store
    \/ smz_test_load
    \/ smz_test_compare
    \/ smz_test_report

TermNext ==
    \/ hpc = "idle" /\ ManagedNext
    \/ op = "none" /\ HarnessNext

TermSpec ==
    Init /\ [][TermNext]_vars /\ WF_vars(ManagedSteps) /\ WF_vars(HarnessSteps)

----------------------------------------------------------------------------
(* What the claims speak of, stated on the value of a word and not with    *)
(* the bit operations of the code                                          *)

\* the value is a multiple of 4 (65536 is one)
Aligned4(w) == w[2] % 4 = 0

PowersOfTwo == {Word(0, 2 ^ k) : k \in 0 .. 15} \cup {Word(2 ^ k, 0) : k \in 0 .. 15}

IsPowerOfTwo(w) == w \in PowersOfTwo

ValidGeometry(b, s) == Aligned4(b) /\ IsPowerOfTwo(s)

\* the low bit of a word
LowBit(w) == w[2] % 2

Returned(o) == op = o /\ pc = "idle"

GeometryWritePcs == {"init_write_base", "init_write_size", "rc_write_base", "rc_write_size"}

IsPrefix(p, q) == Len(p) <= Len(q) /\ SubSeq(q, 1, Len(p)) = p

\* the register operations of a successful init(b, s, e), in order
InitSequence(b, s, e) ==
    <<WriteOp(CSR_SMZ_ENABLE, W0), SettleOp, WriteOp(CSR_SMZ_BASE, b),
      WriteOp(CSR_SMZ_SIZE, s)>>
        \o (IF e # 0 THEN <<WriteOp(CSR_SMZ_ENABLE, W1)>> ELSE <<>>)

----------------------------------------------------------------------------
(* Claims                                                                  *)

\* C1: for every base that is a multiple of 4, every size that is a power
\* of two and every enable request, from any register contents, init
\* returns success, and a get_config right afterwards (all three pointers
\* given) returns exactly (base, size, enable requested or not).
C1_InitThenGetConfig ==
    /\ (Returned("init") /\ ValidGeometry(base, size)) => ret = 0
    /\ (Returned("get_config_after_init") /\ ValidGeometry(base, size)
            /\ want = <<TRUE, TRUE, TRUE>>)
         => cfg = [base |-> base, size |-> size,
                   enable |-> IF enable # 0 THEN 1 ELSE 0]

C1_Witness ==
    /\ Returned("get_config_after_init")
    /\ want = <<TRUE, TRUE, TRUE>>
    /\ base = Word(2, 4) /\ size = Word(32768, 0) /\ enable = 2
    /\ cfg = [base |-> Word(2, 4), size |-> Word(32768, 0), enable |-> 1]

\* C2: init and reconfigure reject every base that is not a multiple of 4
\* and every size that is 0 or not a power of two, and the rejected call
\* writes no register: BASE, SIZE and ENABLE are what they were at the call.
C2_RejectNoMutation ==
    (op \in {"init", "reconfigure"} /\ ~ValidGeometry(base, size))
        => /\ csr = pre
           /\ oplog = <<>>
           /\ pc = "idle" => ret # 0

C2_Witness ==
    /\ Returned("reconfigure")
    /\ size = W0 /\ Aligned4(base)
    /\ ret # 0
    /\ LowBit(pre[CSR_SMZ_ENABLE]) = 1 /\ csr = pre

\* C3 as claimed: the two rules are reported with two distinct results, so
\* the result of a rejected call tells which rule was violated.
C3_DistinctErrorKinds ==
    \A x \in rejects, y \in rejects : x[1] # y[1] => x[2] # y[2]

\* C3 amended: a rejected init or reconfigure returns -1 whichever rule was
\* violated, a misaligned base or a bad size.
C3_SingleErrorValue ==
    /\ \A x \in rejects : x[2] = -1
    /\ (op \in {"init", "reconfigure"} /\ pc = "idle" /\ ~ValidGeometry(base, size))
         => ret = -1

C3_Witness ==
    /\ rejects = {<<"alignment", -1>>, <<"size", -1>>}
    /\ Returned("init") /\ Aligned4(base) /\ ~IsPowerOfTwo(size) /\ ret = -1

\* C4: a successful reconfigure leaves is_enabled() as it was at the call,
\* enabled or disabled, for every valid geometry.
C4_ReconfigurePreservesEnable ==
    (Returned("reconfigure") /\ ValidGeometry(base, size))
        => /\ ret = 0
           /\ LowBit(csr[CSR_SMZ_ENABLE]) = LowBit(pre[CSR_SMZ_ENABLE])

C4_Witness ==
    /\ Returned("reconfigure") /\ ret = 0
    /\ pre[CSR_SMZ_ENABLE] = Word(0, 3)
    /\ csr[CSR_SMZ_ENABLE] = W1
    /\ csr[CSR_SMZ_BASE] # pre[CSR_SMZ_BASE]
    /\ csr[CSR_SMZ_SIZE] # pre[CSR_SMZ_SIZE]

\* C5: in init and reconfigure, whenever BASE or SIZE is about to be
\* written, the disable was the first register operation, the settle wait
\* has run to its end and the low bit of ENABLE is 0.
C5_DisabledBeforeGeometry ==
    pc \in GeometryWritePcs
        => /\ LowBit(csr[CSR_SMZ_ENABLE]) = 0
           /\ delay = -1
           /\ Len(oplog) >= 2
           /\ oplog[1] = WriteOp(CSR_SMZ_ENABLE, W0)
           /\ oplog[2] = SettleOp

C5_Witness ==
    /\ pc = "rc_write_size"
    /\ LowBit(pre[CSR_SMZ_ENABLE]) = 1
    /\ csr[CSR_SMZ_ENABLE] = W0
    /\ csr[CSR_SMZ_BASE] = base /\ base # pre[CSR_SMZ_BASE]

\* C6: the register operations of a successful init are, in this order,
\* disable, settle wait, write BASE, write SIZE and, if and only if enable
\* was requested, one enabling write; at every point inside the call the
\* operations done so far are a prefix of that sequence.
C6_InitOrder ==
    (op = "init" /\ ValidGeometry(base, size))
        => /\ IsPrefix(oplog, InitSequence(base, size, enable))
           /\ pc = "idle" => oplog = InitSequence(base, size, enable)

C6_Witness ==
    /\ Returned("init") /\ ret = 0 /\ enable = 2
    /\ Len(oplog) = 5
    /\ LowBit(pre[CSR_SMZ_ENABLE]) = 1

\* C7: is_enabled() is true exactly when the low bit of ENABLE is set,
\* whatever the other 31 bits are: as evaluated in any state, as read by
\* reconfigure and as stored by get_config.
C7_IsEnabledLowBit ==
    /\ (smz_is_enabled # 0) <=> (LowBit(csr[CSR_SMZ_ENABLE]) = 1)
    /\ pc = "rc_disable" => ((was_enabled # 0) <=> (LowBit(csr[CSR_SMZ_ENABLE]) = 1))
    /\ (op \in {"get_config", "get_config_after_init"} /\ pc = "idle" /\ want[3])
         => ((cfg.enable # 0) <=> (LowBit(csr[CSR_SMZ_ENABLE]) = 1))

C7_Witness ==
    /\ Returned("get_config") /\ want[3]
    /\ csr[CSR_SMZ_ENABLE] = Word(65535, 65534)
    /\ cfg.enable = 0

\* C8 as claimed: smz_test configures the window through init with
\* enable = true, so once it is past its configuration step the register
\* operations done are those of init(SECURE_ADDR, SECURE_SIZE, 1): disable,
\* settle wait, BASE, SIZE, enable; it writes no register by itself.
C8_HarnessConfiguresThroughInit ==
    hpc \notin {"idle", "write_base", "write_size", "write_enable"}
        => oplog = InitSequence(SECURE_ADDR, SECURE_SIZE, 1)

\* word k of the pattern, as a number: 0xAABB0000 + 256 * k + k for k < 256
PatternValue(k) == Word(43707, 257 * k)

\* C9: round trip.  When the engine corrupts no word, the run over the
\* enabled window at 0x10000 of size 0x1000 ends with matches = N = 196 and
\* no first mismatch, and reports PASS.
C9_RoundTrip ==
    (hpc = "done" /\ faults = {})
        => /\ matches = N
           /\ first_mismatch = -1
           /\ report.verdict = "PASS"

C9_Witness ==
    /\ hpc = "done" /\ faults = {}
    /\ N = 196 /\ Len(read_image) = 196 /\ matches = 196
    /\ read_image = ram /\ ram = test_image
    /\ csr[CSR_SMZ_BASE] = Word(1, 0) /\ csr[CSR_SMZ_SIZE] = Word(0, 4096)
    /\ LowBit(csr[CSR_SMZ_ENABLE]) = 1
    /\ report.verdict = "PASS"

\* C10: when the engine corrupts exactly the word at index k, the run ends
\* with matches = N - 1 and first_mismatch = k and reports FAIL with one
\* mismatch at k, the expected word being pattern word k and the actual
\* word the corrupted word that was read back at k.
C10_SingleCorruption ==
    \A k \in FaultIdx :
        (hpc = "done" /\ faults = {k})
            => /\ matches = N - 1
               /\ first_mismatch = k
               /\ report.verdict = "FAIL"
               /\ report.mismatches = 1
               /\ report.first = k
               /\ report.expected = PatternValue(k)
               /\ report.got = read_image[k + 1]
               /\ report.got # report.expected
               /\ \E m \in FaultMasks : report.got = Corrupted(PatternValue(k), m)

C10_Witness ==
    /\ hpc = "done" /\ faults = {195}
    /\ matches = 195 /\ first_mismatch = 195
    /\ report.expected = Word(43707, 50115)
    /\ report.got = Word(10939, 50115)


\* the indices below n at which the loaded word differs from the pattern
MismatchesBelow(n) == {k \in 0 .. n - 1 : read_image[k + 1] # PatternValue(k)}

\* the smallest element of a non-empty set of indices
Smallest(S) == CHOOSE k \in S : \A j \in S : k <= j

\* C11: for every sequence of loaded words, with any number of mismatches,
\* matches is the number of indices whose loaded word equals the pattern
\* word, first_mismatch is the smallest index whose loaded word differs (-1
\* if there is none; a later mismatch does not replace it), and the run
\* reports PASS exactly when matches = N.  The same holds of the indices
\* below i at every point of the comparison loop.
C11_CompareCounts ==
    /\ hpc = "compare"
         => /\ matches = i - Cardinality(MismatchesBelow(i))
            /\ first_mismatch = IF MismatchesBelow(i) = {} THEN -1
                                ELSE Smallest(MismatchesBelow(i))
    /\ hpc = "done"
         => /\ matches = N - Cardinality(MismatchesBelow(N))
            /\ first_mismatch = IF MismatchesBelow(N) = {} THEN -1
                                ELSE Smallest(MismatchesBelow(N))
            /\ MismatchesBelow(N) = faults
            /\ (report.verdict = "PASS") <=> (matches = N)
            /\ report.verdict \in {"PASS", "FAIL"}
            /\ report.verdict = "FAIL"
                 => /\ report.mismatches = Cardinality(MismatchesBelow(N))
                    /\ report.first = first_mismatch
                    /\ report.expected = PatternValue(first_mismatch)
                    /\ report.got = read_image[first_mismatch + 1]

C11_Witness ==
    /\ hpc = "done"
    /\ faults = {1, 195}
    /\ matches = 194
    /\ first_mismatch = 1
    /\ report.verdict = "FAIL" /\ report.mismatches = 2


\* what get_config returns when the registers are regs at all three reads
Snapshot(regs) ==
    [base |-> regs[CSR_SMZ_BASE], size |-> regs[CSR_SMZ_SIZE],
     enable |-> LowBit(regs[CSR_SMZ_ENABLE])]

\* the snapshots of the register states there have been
SnapshotsOfInstants == {Snapshot(hist[k]) : k \in 1 .. Len(hist)}

\* C12: get_config is three separate reads, BASE then SIZE then ENABLE.
\* What it returns is, field by field, the value of that register at three
\* instants in this order; the three are the register state of one instant
\* when the other context has not been inside a reconfigure meanwhile (it
\* has not called, or the calls exclude each other).  With a reconfigure of
\* the other context between the reads they need not be: C12_Witness.
C12_GetConfigThreeReads ==
    (op = "get_config" /\ pc = "idle")
        => /\ \E k1 \in 1 .. Len(hist) : \E k2 \in k1 .. Len(hist) :
                \E k3 \in k2 .. Len(hist) :
                    /\ cfg.base = hist[k1][CSR_SMZ_BASE]
                    /\ cfg.size = hist[k2][CSR_SMZ_SIZE]
                    /\ cfg.enable = LowBit(hist[k3][CSR_SMZ_ENABLE])
           /\ (locking \/ op2 = "none") => cfg \in SnapshotsOfInstants

\* get_config has returned old base, new size and "disabled": the state of
\* no instant, and the region is enabled before and after the reconfigure
C12_Witness ==
    /\ ~locking
    /\ op = "get_config" /\ pc = "idle"
    /\ op2 = "reconfigure" /\ pc2 = "idle" /\ ret2 = 0
    /\ cfg \notin SnapshotsOfInstants
    /\ cfg.base = hist[1][CSR_SMZ_BASE] /\ cfg.base # csr[CSR_SMZ_BASE]
    /\ cfg.size = csr[CSR_SMZ_SIZE] /\ cfg.size # hist[1][CSR_SMZ_SIZE]
    /\ cfg.enable = 0
    /\ LowBit(hist[1][CSR_SMZ_ENABLE]) = 1
    /\ LowBit(csr[CSR_SMZ_ENABLE]) = 1


BothReconfigured ==
    /\ op = "reconfigure" /\ pc = "idle" /\ ret = 0
    /\ op2 = "reconfigure" /\ pc2 = "idle" /\ ret2 = 0

\* C13: on a region that starts enabled, when each whole call runs inside
\* one mutual-exclusion region, the two calls never overlap and after two
\* successful reconfigures (and whenever no context is inside a call) the
\* region is enabled.  Without the region there is an interleaving that
\* ends with the region disabled: C13_Witness.
C13_MutualExclusionKeepsEnabled ==
    (locking /\ LowBit(hist[1][CSR_SMZ_ENABLE]) = 1)
        => /\ pc = "idle" \/ pc2 = "idle"
           /\ (pc = "idle" /\ pc2 = "idle") => LowBit(csr[CSR_SMZ_ENABLE]) = 1
           /\ BothReconfigured => (was_enabled = 1 /\ was_enabled2 = 1)

\* no lock: the first context read "enabled" and disabled, then the second
\* read "disabled"; both have returned 0 and the region is left disabled
C13_Witness ==
    /\ ~locking
    /\ LowBit(hist[1][CSR_SMZ_ENABLE]) = 1
    /\ BothReconfigured
    /\ was_enabled = 1 /\ was_enabled2 = 0
    /\ csr[CSR_SMZ_ENABLE] = W0


GeometryValid ==
    /\ Aligned4(csr[CSR_SMZ_BASE])
    /\ IsPowerOfTwo(csr[CSR_SMZ_SIZE])

\* every value written to BASE is a multiple of 4, to SIZE a power of two
WritesValid ==
    \A k \in 1 .. Len(oplog) :
        /\ (oplog[k].kind = "write" /\ oplog[k].csr = CSR_SMZ_BASE)
             => Aligned4(oplog[k].val)
        /\ (oplog[k].kind = "write" /\ oplog[k].csr = CSR_SMZ_SIZE)
             => IsPowerOfTwo(oplog[k].val)

\* C14: when an init has succeeded, BASE is a multiple of 4 and SIZE a
\* non-zero power of two, and from then on every step of every init and
\* reconfigure, with valid or invalid arguments, inside a call or between
\* calls, keeps them so; no invalid value is ever written to BASE or SIZE.
C14_GeometryInvariant ==
    /\ []((Returned("init") /\ ret = 0) => GeometryValid)
    /\ [][GeometryValid => GeometryValid']_vars
    /\ []WritesValid

C14_Witness ==
    /\ pc = "rc_write_size"
    /\ csr[CSR_SMZ_BASE] = base /\ pre[CSR_SMZ_BASE] # base
    /\ csr[CSR_SMZ_SIZE] # size
    /\ GeometryValid
    /\ rejects = {<<"alignment", -1>>, <<"size", -1>>}


EnableWrites ==
    {k \in 1 .. Len(oplog) : oplog[k].kind = "write" /\ oplog[k].csr = CSR_SMZ_ENABLE}

\* C19: init and reconfigure write only 0 or 1 to ENABLE, exactly 1 for any
\* non-zero enable argument, so that after a successful init or reconfigure
\* ENABLE is 0 or 1 with no higher bit set, whatever it held at the call.
C19_EnableIsZeroOrOne ==
    op \in {"init", "reconfigure"}
        => /\ \A k \in EnableWrites : oplog[k].val \in {W0, W1}
           /\ (pc = "idle" /\ ret = 0) => csr[CSR_SMZ_ENABLE] \in {W0, W1}
           /\ (pc = "idle" /\ ret = 0 /\ op = "init")
                => csr[CSR_SMZ_ENABLE] = IF enable # 0 THEN W1 ELSE W0

C19_Witness ==
    /\ Returned("init") /\ ret = 0
    /\ enable = 2
    /\ pre[CSR_SMZ_ENABLE] = Word(65535, 65534)
    /\ csr[CSR_SMZ_ENABLE] = W1

\* what init(b, s, e) does to the registers regs: its result, its register
\* operations and the registers it leaves
InitOutcome(regs, b, s, e) ==
    IF ValidGeometry(b, s)
    THEN [ret |-> 0,
          ops |-> InitSequence(b, s, e),
          final |-> (CSR_SMZ_BASE :> b) @@ (CSR_SMZ_SIZE :> s)
                      @@ (CSR_SMZ_ENABLE :> IF e # 0 THEN W1 ELSE W0)]
    ELSE [ret |-> -1, ops |-> <<>>, final |-> regs]

\* C20: for every register state and every (base, size), reconfigure(base,
\* size) returns what init(base, size, is_enabled()) returns, with
\* is_enabled() taken at the call, issues the same register operations in
\* the same order and leaves the same BASE, SIZE and ENABLE.
C20_ReconfigureIsInit ==
    /\ Returned("init")
         => [ret |-> ret, ops |-> oplog, final |-> csr]
              = InitOutcome(pre, base, size, enable)
    /\ Returned("reconfigure")
         => [ret |-> ret, ops |-> oplog, final |-> csr]
              = InitOutcome(pre, base, size, LowBit(pre[CSR_SMZ_ENABLE]))

C20_Witness ==
    /\ Returned("reconfigure") /\ ret = 0
    /\ pre[CSR_SMZ_ENABLE] = Word(0, 3)
    /\ Len(oplog) = 5
    /\ csr[CSR_SMZ_ENABLE] = W1


\* the number a word stands for, for words below 2^31
ToInt(w) == w[1] * 65536 + w[2]

\* C15: from the first store to the last load the 196 words fit the window
\* (196 * 4 <= 0x1000), word k is stored to and loaded from 0x10000 + 4 * k,
\* every such address lies in [BASE, BASE + SIZE), the region is enabled
\* with BASE = 0x10000 and SIZE = 0x1000 throughout, and all 196 stores are
\* done before the first load.
C15_WindowCoversPattern ==
    hpc \in {"store", "load"}
        => /\ N = 196 /\ 4 * N <= ToInt(SECURE_SIZE)
           /\ csr[CSR_SMZ_BASE] = Word(1, 0) /\ SECURE_ADDR = Word(1, 0)
           /\ csr[CSR_SMZ_SIZE] = Word(0, 4096)
           /\ LowBit(csr[CSR_SMZ_ENABLE]) = 1
           /\ \A k \in 0 .. N - 1 :
                /\ ToInt(secure_mem_addr(k)) = ToInt(csr[CSR_SMZ_BASE]) + 4 * k
                /\ ToInt(csr[CSR_SMZ_BASE]) <= ToInt(secure_mem_addr(k))
                /\ ToInt(secure_mem_addr(k)) + 4
                     <= ToInt(csr[CSR_SMZ_BASE]) + ToInt(csr[CSR_SMZ_SIZE])
           /\ hpc = "store" => (Len(ram) = i /\ read_image = <<>>)
           /\ hpc = "load" => (Len(ram) = N /\ Len(read_image) = i)

C15_Witness ==
    /\ hpc = "load" /\ i = 195
    /\ Len(ram) = 196 /\ Len(read_image) = 195
    /\ secure_mem_addr(i) = Word(1, 780)
    /\ csr = (CSR_SMZ_BASE :> Word(1, 0)) @@ (CSR_SMZ_SIZE :> Word(0, 4096))
               @@ (CSR_SMZ_ENABLE :> W1)


\* C16: word k of the pattern is 0xAABB0000 | ((k & 0xFF) << 8) | (k & 0xFF)
\* as an unsigned 32-bit value, for every k in [0, 196) and whatever else
\* the run does; once generated the array holds all 196 words and is not
\* changed up to the report; the words stored are the words of that array
\* and the comparison counts the words read back that equal it.
C16_PatternIsPureFunction ==
    /\ Len(test_image) <= N
    /\ \A k \in 1 .. Len(test_image) :
         /\ test_image[k] = PatternValue(k - 1)
         /\ test_image[k][1] \in 0 .. 65535 /\ test_image[k][2] \in 0 .. 65535
    /\ hpc \in {"store", "load", "compare", "report", "done"}
         => Len(test_image) = N
    /\ \A k \in 1 .. Len(ram) : ram[k] = PatternValue(k - 1)
    /\ hpc = "compare"
         => matches = Cardinality({k \in 1 .. i : read_image[k] = PatternValue(k - 1)})

C16_Witness ==
    /\ hpc = "compare" /\ i = N
    /\ Len(test_image) = 196
    /\ test_image[1] = Word(43707, 0)
    /\ test_image[196] = Word(43707, 50115)
    /\ ram = test_image
    /\ faults # {}


\* the statements of smz_test in the order of the source
HarnessOrder ==
    <<"idle", "write_base", "write_size", "write_enable", "read_csrs", "generate",
      "store", "load", "compare", "report", "done">>

HarnessRank(p) == CHOOSE k \in 1 .. Len(HarnessOrder) : HarnessOrder[k] = p

\* C17: every call that has started returns: smz_init, smz_reconfigure and
\* smz_get_config come back to their caller and smz_test reaches its end,
\* for every argument.  The settle wait counts down from 10 by one each
\* iteration, so that it ends.  The harness goes through its statements once,
\* in order: it never goes back to an earlier statement, each loop index
\* only grows, and it does not start again after its end.
C17_RunsToCompletion ==
    /\ \A o \in {"init", "reconfigure", "get_config", "get_config_after_init"} :
         (op = o /\ pc # "idle") ~> Returned(o)
    /\ (hpc # "idle") ~> (hpc = "done")
    /\ [](pc \in {"init_wait", "rc_wait"} => delay \in 0 .. SettleCount)
    /\ [][(pc \in {"init_wait", "rc_wait"}) => (delay' = delay - 1)]_vars
    /\ [][/\ HarnessRank(hpc') >= HarnessRank(hpc)
          /\ (hpc' = hpc) => (i' = i + 1)
          /\ (hpc = "done") => (hVars' = hVars)]_hVars

C17_Witness ==
    /\ Returned("init") /\ ret = 0
    /\ delay = -1
    /\ \E k \in 1 .. Len(oplog) : oplog[k] = SettleOp

====
